---- MODULE Spec2Model ----
(***************************************************************************)
(* EmailFollowUpApp: the follow-up lifecycle engine (EmailManager), its    *)
(* record store (DatabaseManager over SQLite), the reply classifier        *)
(* (IMAPClient.check_for_replies / _is_auto_reply) and the sender          *)
(* (SMTPClient).                                                           *)
(*                                                                         *)
(* Values that cross the SQLite boundary carry their storage class, since  *)
(* the engine passes both integer row ids and text correlation keys        *)
(* through the same parameters: [t |-> "int" | "text" | "none", v |-> _].  *)
(* Text is a TLA+ string, or a sequence of words where the code looks      *)
(* inside it (subjects, bodies).                                           *)
(***************************************************************************)
EXTENDS Integers, Sequences, FiniteSets, TLC

VARIABLES
    db,              \* table followups, rows in rowid order
    next_id,         \* next AUTOINCREMENT rowid
    clock,           \* wall clock, in ticks
    inbox,           \* messages held by the INBOX of the mailbox
    outbox,          \* follow-ups handed to the SMTP server, oldest first
    imap_connected,  \* IMAPClient.is_connected
    smtp_connected,  \* SMTPClient.is_connected
    last,            \* the engine operation that has just returned: argument, result, inner calls
    run,             \* the current succession of reconcile() calls: their number and the
                     \* records they transmitted a follow-up for
    sched,           \* the Scheduler object: its fields, its QTimer, and what its last
                     \* operation did, in order
    threads          \* where the threads are: the calls the main thread is inside of,
                     \* EmailManager._check_thread and EmailManager._stop_flag

vars == <<db, next_id, clock, inbox, outbox, imap_connected, smtp_connected, last, run, sched,
          threads>>

(***************************************************************************)
(* Bounds of the model.                                                    *)
(***************************************************************************)
MaxRows == 2            \* rows the table may hold
MaxInbox == 1           \* messages the INBOX may hold
MaxOutbox == 2          \* transmissions recorded
MaxDays == 7            \* the clock runs from 0 to MaxDays days
TicksPerSecond == 2     \* sub-second resolution of datetime values (microseconds in the code)
SecondsPerDay == 2      \* scale of a day in the model (timedelta(days=1))
MaxRun == 2             \* successive reconcile() calls counted

TicksPerDay == TicksPerSecond * SecondsPerDay

\* the instants at which the model looks at the clock
ClockPoints == {0, TicksPerDay, MaxDays * TicksPerDay}

(***************************************************************************)
(* Python / SQLite values.                                                 *)
(***************************************************************************)
PyNone == [t |-> "none", v |-> 0]
PyInt(n) == [t |-> "int", v |-> n]
PyStr(s) == [t |-> "text", v |-> s]
PyBool(b) == [t |-> "bool", v |-> b]

IsNone(x) == x.t = "none"

\* a naive datetime object, counted in ticks
DateTime(n) == [t |-> "datetime", ticks |-> n]

\* sqlite3's default adapter for datetime: isoformat(" "), "S" or "S.ffffff"
adapt_datetime(dt) ==
    [t |-> "text", sec |-> dt.ticks \div TicksPerSecond, frac |-> dt.ticks % TicksPerSecond]

\* CURRENT_TIMESTAMP of SQLite: "YYYY-MM-DD HH:MM:SS", whole seconds
CURRENT_TIMESTAMP(now) ==
    [t |-> "text", sec |-> now \div TicksPerSecond, frac |-> 0]

\* followup_date <= CURRENT_TIMESTAMP is a comparison of two texts: a text
\* with a fraction is longer than, hence greater than, the same second without
TextLeq(a, b) ==
    \/ a.sec < b.sec
    \/ a.sec = b.sec /\ a.frac <= b.frac

(***************************************************************************)
(* utils.py                                                                *)
(***************************************************************************)
\* sent_date + timedelta(seconds=delay_days)
calculate_followup_date_seconds(sent_date, delay_days) ==
    DateTime(sent_date.ticks + delay_days * TicksPerSecond)

calculate_followup_date(sent_date, delay_days) ==
    DateTime(sent_date.ticks + delay_days * TicksPerDay)

\* date.isoformat()
isoformat(dt) == "T" \o ToString(dt.ticks)

\* md5(...).hexdigest(): a text of 32 hexadecimal digits, one per input
\* string (the hash is taken to be injective)
md5_hexdigest(s) == PyStr("md5:" \o s)

generate_email_id(sender, subject_text, date) ==
    md5_hexdigest(sender \o subject_text \o isoformat(date))

\* date.strftime(format_str): only a datetime object has the method
format_date(x) ==
    IF x.t = "datetime" THEN [raised |-> FALSE, v |-> x.ticks]
                        ELSE [raised |-> TRUE, v |-> 0]

(***************************************************************************)
(* Text.  A subject or a body is a sequence of words; its text is the      *)
(* words joined by blanks.  Substring tests of the code are taken on word  *)
(* boundaries.                                                             *)
(***************************************************************************)
RECURSIVE Text(_)
Text(ws) ==
    IF ws = <<>> THEN ""
    ELSE IF Len(ws) = 1 THEN ws[1]
    ELSE ws[1] \o " " \o Text(Tail(ws))

\* str.lower() on the words of the model
Lower(w) ==
    CASE w = "Out" -> "out"
      [] w = "OUT" -> "out"
      [] w = "Of" -> "of"
      [] w = "OF" -> "of"
      [] w = "Office" -> "office"
      [] w = "OFFICE" -> "office"
      [] w = "Automatic" -> "automatic"
      [] w = "Reply" -> "reply"
      [] w = "Thanks" -> "thanks"
      [] w = "Re:" -> "re:"
      [] w = "RE:" -> "re:"
      [] w = "Fwd:" -> "fwd:"
      [] w = "FW:" -> "fw:"
      [] w = "Fw:" -> "fw:"
      [] w = "Forward:" -> "forward:"
      [] w = "Auto-Submitted" -> "auto-submitted"
      [] w = "X-Auto-Response-Suppress" -> "x-auto-response-suppress"
      [] w = "X-Autorespond" -> "x-autorespond"
      [] w = "X-Autoreply" -> "x-autoreply"
      [] w = "X-AutoReply" -> "x-autoreply"
      [] w = "Received" -> "received"
      [] w = "C" -> "c"
      [] w = "BC" -> "bc"
      [] OTHER -> w

LowerWords(ws) == [i \in DOMAIN ws |-> Lower(ws[i])]

\* pattern in text
Contains(text, pattern) ==
    \E i \in 1..(Len(text) - Len(pattern) + 1) :
        SubSeq(text, i, i + Len(pattern) - 1) = pattern

\* re.sub(r'^(?:Re|Fwd|FW|Forward):\s*', '', subject, flags=re.IGNORECASE).strip()
sanitize_subject(subject) ==
    IF subject # <<>> /\ Lower(subject[1]) \in {"re:", "fwd:", "fw:", "forward:"}
    THEN Tail(subject)
    ELSE subject

(***************************************************************************)
(* utils.validate_email.  An address is a sequence of characters.          *)
(***************************************************************************)
Letters ==
    {"a","b","c","d","e","f","g","h","i","j","k","l","m","n","o","p","q","r","s","t","u","v","w","x","y","z",
     "A","B","C","D","E","F","G","H","I","J","K","L","M","N","O","P","Q","R","S","T","U","V","W","X","Y","Z"}
Digits == {"0","1","2","3","4","5","6","7","8","9"}
LocalChars == Letters \cup Digits \cup {".", "_", "%", "+", "-"}
DomainChars == Letters \cup Digits \cup {".", "-"}

\* EMAIL_PATTERN = ^[a-zA-Z0-9._%+-]+@[a-zA-Z0-9.-]+\.[a-zA-Z]{2,}$
validate_email(addr) ==
    \E i \in 2..Len(addr) :
        /\ addr[i] = "@"
        /\ \A k \in 1..(i - 1) : addr[k] \in LocalChars
        /\ \E j \in (i + 2)..(Len(addr) - 2) :
            /\ addr[j] = "."
            /\ \A k \in (i + 1)..(j - 1) : addr[k] \in DomainChars
            /\ \A k \in (j + 1)..Len(addr) : addr[k] \in Letters

(***************************************************************************)
(* database.py: table followups.                                           *)
(***************************************************************************)
\* a bound parameter compared with the TEXT column email_id takes TEXT affinity
BindText(arg) ==
    IF arg.t = "int" THEN ToString(arg.v) ELSE arg.v

\* a bound parameter compared with the INTEGER column id: a text converts
\* when it is a well-formed integer literal, and no md5 digest of the model is
IdMatches(id, arg) ==
    IF arg.t = "int" THEN id = arg.v
    ELSE arg.t = "text" /\ (\E n \in 1..(MaxRows + 1) : ToString(n) = arg.v /\ id = n)

\* SELECT * FROM followups WHERE email_id = ?  (fetchone)
get_followup_by_email_id(d, email_id) ==
    LET hits == SelectSeq(d, LAMBDA r : r.email_id.v = BindText(email_id))
    IN  IF hits = <<>> THEN [found |-> FALSE, row |-> PyNone]
                       ELSE [found |-> TRUE, row |-> hits[1]]

\* UPDATE followups SET ... WHERE id = ? OR email_id = ?
update_followup_status_by_key(d, followup_id, status, increment_count, now) ==
    [i \in DOMAIN d |->
        IF IdMatches(d[i].id, followup_id) \/ d[i].email_id.v = BindText(followup_id)
        THEN [d[i] EXCEPT !.status = status,
                          !.followup_count = IF increment_count THEN @ + 1 ELSE @,
                          !.last_check_date = CURRENT_TIMESTAMP(now)]
        ELSE d[i]]

\* UPDATE followups SET status = ?, [followup_count = followup_count + 1,]
\*   last_check_date = CURRENT_TIMESTAMP WHERE id = ?
update_followup_status(d, followup_id, status, increment_count, now) ==
    [i \in DOMAIN d |->
        IF IdMatches(d[i].id, followup_id)
        THEN [d[i] EXCEPT !.status = status,
                          !.followup_count = IF increment_count THEN @ + 1 ELSE @,
                          !.last_check_date = CURRENT_TIMESTAMP(now)]
        ELSE d[i]]

\* rows in ascending followup_date order, ties in rowid order
RECURSIVE SortByFollowupDate(_)
SortByFollowupDate(rows) ==
    IF rows = <<>> THEN <<>>
    ELSE LET i == CHOOSE i \in DOMAIN rows :
                    \A j \in DOMAIN rows :
                        \/ ~TextLeq(rows[j].followup_date, rows[i].followup_date)
                        \/ (TextLeq(rows[i].followup_date, rows[j].followup_date) /\ i <= j)
             rest == [k \in 1..(Len(rows) - 1) |-> IF k < i THEN rows[k] ELSE rows[k + 1]]
         IN  <<rows[i]>> \o SortByFollowupDate(rest)

\* the query without ORDER BY: rows in rowid order
get_pending_followups_unordered(d, now) ==
    SelectSeq(d, LAMBDA r : r.status = "pending"
                            /\ TextLeq(r.followup_date, CURRENT_TIMESTAMP(now)))

\* SELECT * FROM followups WHERE status = 'pending'
\*   AND followup_date <= CURRENT_TIMESTAMP ORDER BY followup_date ASC
get_pending_followups(d, now) ==
    SortByFollowupDate(
        SelectSeq(d, LAMBDA r : r.status = "pending"
                                /\ TextLeq(r.followup_date, CURRENT_TIMESTAMP(now))))

\* email_id TEXT, no constraint
UniqueViolation_unconstrained(d, followup_data) == FALSE

\* email_id TEXT UNIQUE
UniqueViolation(d, followup_data) ==
    \E i \in DOMAIN d : d[i].email_id.v = followup_data.email_id.v

\* INSERT OR REPLACE INTO followups: the conflicting row gives way to the new one
db_add_followup_replace(d, id, followup_data) ==
    [raised |-> FALSE,
     db |-> Append(SelectSeq(d, LAMBDA r : r.email_id.v # followup_data.email_id.v),
                   [id |-> id,
                    email_id |-> followup_data.email_id,
                    sender |-> followup_data.sender,
                    recipient |-> followup_data.recipient,
                    subject |-> followup_data.subject,
                    sent_date |-> adapt_datetime(followup_data.sent_date),
                    followup_date |-> adapt_datetime(followup_data.followup_date),
                    delay_days |-> followup_data.delay_days,
                    status |-> "pending",
                    followup_count |-> 0,
                    last_check_date |-> PyNone,
                    metadata |-> followup_data.metadata]),
     id |-> PyInt(id)]

\* INSERT INTO followups (...) VALUES (...), status 'pending',
\* followup_count DEFAULT 0, last_check_date NULL; returns lastrowid
db_add_followup(d, id, followup_data) ==
    IF UniqueViolation(d, followup_data)
    THEN [raised |-> TRUE, db |-> d, id |-> PyNone]
    ELSE [raised |-> FALSE,
          db |-> Append(d, [id |-> id,
                            email_id |-> followup_data.email_id,
                            sender |-> followup_data.sender,
                            recipient |-> followup_data.recipient,
                            subject |-> followup_data.subject,
                            sent_date |-> adapt_datetime(followup_data.sent_date),
                            followup_date |-> adapt_datetime(followup_data.followup_date),
                            delay_days |-> followup_data.delay_days,
                            status |-> "pending",
                            followup_count |-> 0,
                            last_check_date |-> PyNone,
                            metadata |-> followup_data.metadata]),
          id |-> PyInt(id)]

(***************************************************************************)
(* config.py                                                               *)
(***************************************************************************)
AUTO_REPLY_PATTERNS ==
    << <<"absent", "du", "bureau">>,
       <<"out", "of", "office">>,
       <<"en", "congés">>,
       <<"automatique">>,
       <<"automatic", "reply">>,
       <<"vacation", "response">>,
       <<"accusé", "de", "réception", "automatique">>,
       <<"message", "automatique">> >>

(***************************************************************************)
(* imap_client.py.  A parsed message: subject and body are word sequences, *)
(* references and in_reply_to the sets of message identifiers the header   *)
(* text contains, headers the header names as written in the message       *)
(* (dict(message.items()) keeps their letter case).                        *)
(***************************************************************************)
auto_reply_headers ==
    <<"auto-submitted", "x-auto-response-suppress", "x-autorespond", "x-autoreply">>

\* _is_auto_reply comparing the phrases with the body as written
_is_auto_reply_cased(email_info) ==
    LET headers == email_info.headers
        body == email_info.body
    IN  \/ \E i \in DOMAIN auto_reply_headers : auto_reply_headers[i] \in headers
        \/ \E i \in DOMAIN AUTO_REPLY_PATTERNS :
              Contains(body, LowerWords(AUTO_REPLY_PATTERNS[i]))

_is_auto_reply(email_info) ==
    LET headers == email_info.headers
        body == LowerWords(email_info.body)
    IN  \/ \E i \in DOMAIN auto_reply_headers : auto_reply_headers[i] \in headers
        \/ \E i \in DOMAIN AUTO_REPLY_PATTERNS :
              Contains(body, LowerWords(AUTO_REPLY_PATTERNS[i]))

\* original_email_id in email_info['references'] or
\* original_email_id in email_info['in_reply_to']
IsReplyTo(email_info, original_email_id) ==
    \/ original_email_id.v \in email_info.references
    \/ original_email_id.v \in email_info.in_reply_to

\* the server's answer to SEARCH SUBJECT "<text>": the messages whose
\* subject contains the text, letter case ignored
SearchSubject(box, sanitized_subject) ==
    {m \in box : Contains(LowerWords(m.subject), LowerWords(sanitized_subject))}

\* IMAPClient.check_for_replies lets out what is not an imaplib.IMAP4.error:
\* the OSError of a socket that times out or is reset while imaplib reads
check_for_replies_raises(env) == env.imap_connected /\ env.imap_oserror

\* IMAPClient.check_for_replies, when it returns; fault: the connection
\* raises imaplib.IMAP4.error
check_for_replies(env, original_email_id, subject) ==
    IF ~env.imap_connected THEN {}
    ELSE IF env.imap_fault THEN {}
    ELSE {m \in SearchSubject(env.inbox, sanitize_subject(subject)) :
              IsReplyTo(m, original_email_id) /\ ~_is_auto_reply(m)}

(***************************************************************************)
(* smtp_client.py                                                          *)
(***************************************************************************)
\* SMTPClient.send_email: the message id, None, or an exception it does not catch
send_email(env, to_email, subject, references, in_reply_to) ==
    IF ~env.smtp_connected THEN [raised |-> FALSE, sent |-> FALSE]
    ELSE IF ~validate_email(to_email) THEN [raised |-> FALSE, sent |-> FALSE]
    ELSE IF \E i \in DOMAIN references : IsNone(references[i])
         THEN [raised |-> TRUE, sent |-> FALSE]      \* ' '.join([None]): TypeError
    ELSE IF env.smtp_fault THEN [raised |-> FALSE, sent |-> FALSE]   \* SMTPException
    ELSE [raised |-> FALSE, sent |-> TRUE]

\* SMTPClient.send_followup: the template has every placeholder it names
smtp_send_followup(env, original_email) ==
    send_email(env, original_email.to, <<"Re:">> \o original_email.subject,
               <<original_email.message_id>>, original_email.message_id)

(***************************************************************************)
(* email_manager.py.  Each operation yields its return value, the table    *)
(* it leaves, the messages it transmitted and the calls it made.           *)
(***************************************************************************)
Call(fn, arg, ret) == [fn |-> fn, arg |-> arg, ret |-> ret]

\* EmailManager.check_for_responses
check_for_responses(env, d, followup_id) ==
    LET followup == get_followup_by_email_id(d, followup_id)
    IN  IF ~followup.found THEN [ret |-> FALSE, db |-> d]
        ELSE IF check_for_replies_raises(env) THEN [ret |-> FALSE, db |-> d]
        ELSE IF check_for_replies(env, followup.row.email_id, followup.row.subject) # {}
             THEN [ret |-> TRUE,
                   db |-> update_followup_status(d, followup_id, "responded", FALSE, env.now)]
        ELSE [ret |-> FALSE, db |-> d]

\* the message a successful send puts on the wire
FollowupMessage(row) ==
    [record |-> row.id, to |-> row.recipient, subject |-> <<"Re:">> \o row.subject,
     in_reply_to |-> row.metadata.original_message_id]

\* send_followup with the row found by its rowid, the stored dates handed to
\* the template as they are, and the status update after the send left out
send_followup_unrecorded(env, d, followup_id) ==
    LET hits == SelectSeq(d, LAMBDA r : IdMatches(r.id, followup_id))
        row == hits[1]
        smtp == smtp_send_followup(env, [to |-> row.recipient, subject |-> row.subject,
                                         message_id |-> row.metadata.original_message_id])
    IN  IF hits = <<>> THEN [ret |-> FALSE, db |-> d, out |-> <<>>]
        ELSE IF check_for_replies(env, row.email_id, row.subject) # {}
             THEN [ret |-> TRUE, db |-> d, out |-> <<>>]
        ELSE IF smtp.raised \/ ~smtp.sent THEN [ret |-> FALSE, db |-> d, out |-> <<>>]
        ELSE [ret |-> TRUE, db |-> d, out |-> <<FollowupMessage(row)>>]

\* send_followup with the row found by its rowid and the stored dates handed
\* to the template as they are, sending a record that has no message id as
\* the start of a thread, without References
send_followup_new_thread(env, d, followup_id) ==
    LET hits == SelectSeq(d, LAMBDA r : IdMatches(r.id, followup_id))
        row == hits[1]
        sent == env.smtp_connected /\ validate_email(row.recipient) /\ ~env.smtp_fault
    IN  IF hits = <<>> THEN [ret |-> FALSE, db |-> d, out |-> <<>>]
        ELSE IF check_for_replies(env, row.email_id, row.subject) # {}
             THEN [ret |-> TRUE, db |-> d, out |-> <<>>]
        ELSE IF ~sent THEN [ret |-> FALSE, db |-> d, out |-> <<>>]
        ELSE [ret |-> TRUE, db |-> d, out |-> <<FollowupMessage(row)>>]

\* send_followup that gives a record up when the follow-up could not be sent
send_followup_gives_up(env, d, followup_id) ==
    LET r == send_followup_unrecorded(env, d, followup_id)
    IN  IF r.ret THEN r
        ELSE [ret |-> FALSE,
              db |-> update_followup_status_by_key(d, followup_id, "failed", FALSE, env.now),
              out |-> <<>>]

\* EmailManager.send_followup
send_followup(env, d, followup_id) ==
    LET followup == get_followup_by_email_id(d, followup_id)
        checked == check_for_responses(env, d, followup_id)
        row == followup.row
        smtp == smtp_send_followup(env, [to |-> row.recipient, subject |-> row.subject,
                                         message_id |-> row.metadata.original_message_id])
    IN  IF ~followup.found THEN [ret |-> FALSE, db |-> d, out |-> <<>>]
        ELSE IF checked.ret THEN [ret |-> TRUE, db |-> checked.db, out |-> <<>>]
        ELSE IF format_date(row.sent_date).raised \/ format_date(row.followup_date).raised
             THEN [ret |-> FALSE, db |-> checked.db, out |-> <<>>]
        ELSE IF smtp.raised \/ ~smtp.sent
             THEN [ret |-> FALSE, db |-> checked.db, out |-> <<>>]
        ELSE [ret |-> TRUE,
              db |-> update_followup_status(checked.db, followup_id, "sent", TRUE, env.now),
              out |-> <<FollowupMessage(row)>>]

\* the loop leaving at the first row whose processing fails
RECURSIVE ProcessRows_aborting(_, _, _)
ProcessRows_aborting(env, d, pending) ==
    IF pending = <<>> THEN [db |-> d, out |-> <<>>, calls |-> <<>>]
    ELSE LET followup_id == PyInt(pending[1].id)
             checked == check_for_responses(env, d, followup_id)
             sent == send_followup(env, checked.db, followup_id)
             c1 == Call("check_for_responses", followup_id, checked.ret)
             c2 == Call("send_followup", followup_id, sent.ret)
             rest == ProcessRows_aborting(env, IF checked.ret THEN checked.db ELSE sent.db,
                                          Tail(pending))
         IN  IF checked.ret
             THEN [db |-> rest.db, out |-> rest.out, calls |-> <<c1>> \o rest.calls]
             ELSE IF ~sent.ret
             THEN [db |-> sent.db, out |-> <<>>, calls |-> <<c1, c2>>]
             ELSE [db |-> rest.db, out |-> sent.out \o rest.out,
                   calls |-> <<c1, c2>> \o rest.calls]

\* the loop of EmailManager.process_pending_followups over the rows the
\* query returned
RECURSIVE ProcessRows(_, _, _)
ProcessRows(env, d, pending) ==
    IF pending = <<>> THEN [db |-> d, out |-> <<>>, calls |-> <<>>]
    ELSE LET followup_id == PyInt(pending[1].id)
             checked == check_for_responses(env, d, followup_id)
             sent == send_followup(env, checked.db, followup_id)
             c1 == Call("check_for_responses", followup_id, checked.ret)
             c2 == Call("send_followup", followup_id, sent.ret)
             rest == ProcessRows(env, IF checked.ret THEN checked.db ELSE sent.db, Tail(pending))
         IN  IF checked.ret
             THEN [db |-> rest.db, out |-> rest.out, calls |-> <<c1>> \o rest.calls]
             ELSE [db |-> rest.db, out |-> sent.out \o rest.out,
                   calls |-> <<c1, c2>> \o rest.calls]

\* EmailManager.process_pending_followups
process_pending_followups(env, d) ==
    ProcessRows(env, d, IF env.store_fault THEN <<>>    \* sqlite3.Error: logged, []
                        ELSE get_pending_followups(d, env.now))

(***************************************************************************)
(* Inputs.                                                                 *)
(***************************************************************************)
AddrOk == <<"y", "@", "y", ".", "c", "o">>
AddrOther == <<"z", "@", "y", ".", "c", "o">>
AddrBad == <<"b", "a", "d">>

EmailData(sender, recipient, subject, sent, delay, message_id) ==
    [sender |-> sender, recipient |-> recipient, subject |-> subject,
     sent_date |-> DateTime(sent), delay_days |-> delay, message_id |-> message_id]

\* the email_data dictionaries the callers of add_followup pass
RegisterInputs ==
    { EmailData("a", AddrOk, <<"bc">>, 0, 7, PyStr("<m1>")),
      EmailData("a", AddrOk, <<"c">>, 0, 1, PyStr("<m3>")),
      EmailData("a", AddrOther, <<"c">>, 0, 7, PyStr("<m4>")) }

\* what may go wrong on the wire during one operation
Faults == {"none", "imap", "smtp"}

Keys == {db[i].email_id.v : i \in DOMAIN db}

\* the messages a correspondent may put into the INBOX about a stored record
MessagesFor(row) ==
    LET k == row.email_id.v
        Msg(refs, irt, headers, body) ==
            [subject |-> <<"Re:">> \o row.subject, references |-> refs, in_reply_to |-> irt,
             headers |-> headers, body |-> body]
    IN  { Msg({k}, {}, {"Received"}, <<"Thanks">>),
          Msg({}, {k}, {"Received"}, <<"Thanks">>),
          Msg({k}, {}, {"Received"}, <<"Out", "of", "Office">>),
          Msg({k}, {}, {"Received", "Auto-Submitted"}, <<"Thanks">>),
          Msg({k}, {}, {"Received", "x-autoreply"}, <<"Thanks">>),
          Msg({}, {}, {"Received"}, <<"Thanks">>) }

\* the arguments a caller may address a record by: its rowid or its email_id
Handles == {PyInt(db[i].id) : i \in DOMAIN db} \cup {db[i].email_id : i \in DOMAIN db}

Env(fault) ==
    [now |-> clock, inbox |-> inbox, imap_connected |-> imap_connected,
     smtp_connected |-> smtp_connected,
     imap_fault |-> (fault = "imap"), imap_oserror |-> (fault = "oserror"),
     smtp_fault |-> (fault = "smtp"), store_fault |-> (fault = "store")]

NoData == EmailData("", <<>>, <<>>, 0, 0, PyNone)

Last(op, arg, ret, calls, fault, data, before) ==
    [op |-> op, arg |-> arg, ret |-> ret, calls |-> calls, fault |-> fault, data |-> data,
     before |-> before]

\* the rows a caller means by a handle
RowsOf(d, h) ==
    {i \in DOMAIN d : IF h.t = "int" THEN d[i].id = h.v ELSE d[i].email_id.v = h.v}

NoRun == [passes |-> 0, sent |-> <<>>]

(***************************************************************************)
(* The state after construction: an empty table, no connection.            *)
(***************************************************************************)
\* Scheduler.__init__.  timer_started is when check_timer.start() was last
\* called (the timer fires every timer_interval from then on); error_signals
\* counts the error_occurred signals emitted since the error count was last
\* set to zero.
NewScheduler ==
    [is_running |-> FALSE, last_check |-> PyNone, error_count |-> 0,
     timer_active |-> FALSE, timer_interval |-> 0, timer_started |-> PyNone,
     error_signals |-> 0, events |-> <<>>]

\* EmailManager.__init__ (_stop_flag, _check_thread); the main thread is in
\* the event loop, inside no call
NoThreads == [main |-> <<>>, check_thread |-> "none", stop_flag |-> FALSE]

\* no engine operation has just returned
Idle == Last("none", PyNone, PyNone, <<>>, "none", NoData, <<>>)

Init ==
    /\ db = <<>>
    /\ next_id = 1
    /\ clock = 0
    /\ inbox = {}
    /\ outbox = <<>>
    /\ imap_connected = FALSE
    /\ smtp_connected = FALSE
    /\ last = Idle
    /\ run = NoRun
    /\ sched = NewScheduler
    /\ threads = NoThreads

(***************************************************************************)
(* Operations.                                                             *)
(***************************************************************************)
\* EmailManager.add_followup(email_data)
add_followup(d, id, email_data) ==
    LET email_id == generate_email_id(email_data.sender, Text(email_data.subject),
                                      email_data.sent_date)
        followup_date == calculate_followup_date(email_data.sent_date, email_data.delay_days)
        followup_data ==
            [email_id |-> email_id, sender |-> email_data.sender,
             recipient |-> email_data.recipient, subject |-> email_data.subject,
             sent_date |-> email_data.sent_date, followup_date |-> followup_date,
             delay_days |-> email_data.delay_days,
             metadata |-> [original_message_id |-> email_data.message_id,
                           template_name |-> "default"]]
        added == db_add_followup(d, id, followup_data)
    IN  IF added.raised THEN [ret |-> PyNone, db |-> d]
                        ELSE [ret |-> added.id, db |-> added.db]

Register(email_data) ==
    LET r == add_followup(db, next_id, email_data)
    IN  /\ Len(db) < MaxRows \/ IsNone(r.ret)
        /\ db' = r.db
        /\ next_id' = IF IsNone(r.ret) THEN next_id ELSE next_id + 1
        /\ last' = Last("add_followup", PyNone, r.ret, <<>>, "none", email_data, <<>>)
        /\ run' = NoRun
        /\ UNCHANGED <<clock, inbox, outbox, imap_connected, smtp_connected, sched, threads>>

\* time passes
Tick(t) ==
    /\ t > clock
    /\ clock' = t
    /\ run' = NoRun
    /\ last' = Idle
    /\ UNCHANGED <<db, next_id, inbox, outbox, imap_connected, smtp_connected, sched, threads>>

\* a message arrives in the INBOX
Deliver(m) ==
    /\ Cardinality(inbox) < MaxInbox
    /\ m \notin inbox
    /\ inbox' = inbox \cup {m}
    /\ run' = NoRun
    /\ last' = Idle
    /\ UNCHANGED <<db, next_id, clock, outbox, imap_connected, smtp_connected, sched, threads>>

\* EmailManager.connect: each client reports its own success
Connect(imap_ok, smtp_ok) ==
    /\ imap_connected' = imap_ok
    /\ smtp_connected' = smtp_ok
    /\ last' = Idle
    /\ run' = NoRun
    /\ UNCHANGED <<db, next_id, clock, inbox, outbox, sched, threads>>

\* EmailManager.disconnect
Disconnect ==
    /\ imap_connected \/ smtp_connected
    /\ imap_connected' = FALSE
    /\ smtp_connected' = FALSE
    /\ last' = Idle
    /\ run' = NoRun
    /\ UNCHANGED <<db, next_id, clock, inbox, outbox, sched, threads>>

RECURSIVE RecordsOf(_)
RecordsOf(out) ==
    IF out = <<>> THEN <<>> ELSE <<out[1].record>> \o RecordsOf(Tail(out))

\* EmailManager.process_pending_followups on the main thread
Pass(fault) ==
    LET r == process_pending_followups(Env(fault), db)
    IN  /\ Len(outbox) + Len(r.out) <= MaxOutbox
        /\ db' = r.db
        /\ outbox' = outbox \o r.out
        /\ run' = [passes |-> IF run.passes < MaxRun THEN run.passes + 1 ELSE MaxRun,
                    sent |-> run.sent \o RecordsOf(r.out)]
        /\ last' = Last("process_pending_followups", PyNone, PyNone, r.calls, fault, NoData,
                        [i \in DOMAIN db |-> db[i].status])
        /\ UNCHANGED <<next_id, clock, inbox, imap_connected, smtp_connected, sched>>

\* reconcile(): a call of EmailManager.process_pending_followups, from entry to return
Reconcile(fault) == Pass(fault) /\ UNCHANGED threads

\* a direct call of EmailManager.check_for_responses
CheckForResponses(followup_id, fault) ==
    LET r == check_for_responses(Env(fault), db, followup_id)
    IN  /\ db' = r.db
        /\ last' = Last("check_for_responses", followup_id, PyBool(r.ret), <<>>, fault, NoData,
                        [i \in DOMAIN db |-> db[i].status])
        /\ run' = NoRun
        /\ UNCHANGED <<next_id, clock, inbox, outbox, imap_connected, smtp_connected, sched, threads>>

\* a direct call of EmailManager.send_followup
SendFollowup(followup_id, fault) ==
    LET r == send_followup(Env(fault), db, followup_id)
    IN  /\ Len(outbox) + Len(r.out) <= MaxOutbox
        /\ db' = r.db
        /\ outbox' = outbox \o r.out
        /\ last' = Last("send_followup", followup_id, PyBool(r.ret), <<>>, fault, NoData,
                        [i \in DOMAIN db |-> db[i].status])
        /\ run' = NoRun
        /\ UNCHANGED <<next_id, clock, inbox, imap_connected, smtp_connected, sched, threads>>

Next ==
    \/ \E e \in RegisterInputs : Register(e)
    \/ \E t \in ClockPoints : Tick(t)
    \/ \E i \in DOMAIN db : \E m \in MessagesFor(db[i]) : Deliver(m)
    \/ \E i, s \in BOOLEAN : Connect(i, s)
    \/ Disconnect
    \/ \E f \in Faults : Reconcile(f)
    \/ \E h \in Handles : \E f \in {"none", "imap"} : CheckForResponses(h, f)
    \/ \E h \in Handles : \E f \in {"none", "smtp"} : SendFollowup(h, f)

Spec == Init /\ [][Next]_vars

(***************************************************************************)
(* Vocabulary of the properties.                                           *)
(***************************************************************************)
\* the instant a stored timestamp text denotes
Ticks(text) == text.sec * TicksPerSecond + text.frac

\* follow-ups transmitted for the record with this rowid
SentFor(id) == Cardinality({k \in DOMAIN outbox : outbox[k].record = id})

\* both clients are connected and nothing went wrong on the wire
TransportsUp == imap_connected /\ smtp_connected /\ last.fault = "none"

\* the message refers to the record's correlation key
RefersTo(m, row) == row.email_id.v \in (m.references \cup m.in_reply_to)

NoReplyFor(row) == ~\E m \in inbox : RefersTo(m, row)

Due(row) == clock >= Ticks(row.followup_date)

Reconciled == last.op = "process_pending_followups"

(***************************************************************************)
(* C1.  A record registered with delay = 7 days and never answered: once   *)
(* the clock has reached sent_at + 7 days, a reconcile() with working      *)
(* transports has transmitted exactly one follow-up for it and leaves it   *)
(* with status sent and followup_count 1.                                  *)
(***************************************************************************)
C1_FollowupSentWhenDue ==
    (Reconciled /\ TransportsUp) =>
        \A i \in DOMAIN db :
            ( /\ db[i].delay_days = 7
              /\ clock >= Ticks(db[i].sent_date) + 7 * TicksPerDay
              /\ NoReplyFor(db[i]) )
            => ( /\ SentFor(db[i].id) = 1
                 /\ db[i].status = "sent"
                 /\ db[i].followup_count = 1 )

(***************************************************************************)
(* C2.  Successive reconcile() calls, with no new message and no clock     *)
(* change between them, transmit at most one follow-up per record in       *)
(* total.                                                                  *)
(***************************************************************************)
C2_AtMostOneSendPerRun ==
    \A i \in DOMAIN db :
        Cardinality({k \in DOMAIN run.sent : run.sent[k] = db[i].id}) <= 1

\* two reconcile() calls in succession over a due, pending, unanswered record
C2_Witness ==
    /\ Reconciled
    /\ TransportsUp
    /\ run.passes >= 2
    /\ \E i \in DOMAIN db :
          /\ db[i].status = "pending"
          /\ Due(db[i])
          /\ NoReplyFor(db[i])
          /\ \E k \in DOMAIN last.calls :
                last.calls[k].fn = "send_followup" /\ last.calls[k].arg = PyInt(db[i].id)

(***************************************************************************)
(* The reply classification as the properties state it.                    *)
(***************************************************************************)
MarkerHeaders == {"auto-submitted", "x-auto-response-suppress", "x-autorespond", "x-autoreply"}

\* a marker header is present, whatever the letter case of its name
HasMarkerHeader(m) == \E h \in m.headers : Lower(h) \in MarkerHeaders

\* the lower-cased body contains a configured phrase
HasAutoPhrase(m) ==
    \E i \in DOMAIN AUTO_REPLY_PATTERNS : Contains(LowerWords(m.body), AUTO_REPLY_PATTERNS[i])

OutOfOffice(m) == Contains(LowerWords(m.body), <<"out", "of", "office">>)

\* the reader at work: connected, no transport error
ReaderUp == [Env("none") EXCEPT !.imap_connected = TRUE]

\* the messages the reader fetches for a record
Fetched(row) == SearchSubject(inbox, sanitize_subject(row.subject))

\* the classifier finds a genuine reply to the record in the INBOX
ClassifiedGenuine(row) == check_for_replies(ReaderUp, row.email_id, row.subject) # {}

ReaderWorked == imap_connected /\ last.fault # "imap"

(***************************************************************************)
(* C3.  Response wins: when send_followup is invoked for a record while    *)
(* the INBOX holds a genuine reply referring to its correlation key, it    *)
(* returns true and no follow-up is transmitted for the record.            *)
(***************************************************************************)
C3_ResponseWins ==
    (Reconciled /\ ReaderWorked) =>
        \A k \in DOMAIN last.calls :
            last.calls[k].fn = "send_followup" =>
                \A i \in RowsOf(db, last.calls[k].arg) :
                    ClassifiedGenuine(db[i]) =>
                        /\ last.calls[k].ret = TRUE
                        /\ \A j \in DOMAIN run.sent : run.sent[j] # db[i].id

(***************************************************************************)
(* C4.  check_for_responses on a tracked record returns true exactly when  *)
(* a candidate message is a genuine reply; the stored status is then       *)
(* responded, and otherwise the status is what it was.  The record may be  *)
(* addressed by its rowid (as reconcile() does) or by its correlation key. *)
(***************************************************************************)
C4_CheckForResponses ==
    /\ (last.op = "check_for_responses" /\ ReaderWorked) =>
          \A i \in RowsOf(db, last.arg) :
              /\ last.ret.v = ClassifiedGenuine(db[i])
              /\ last.ret.v => db[i].status = "responded"
              /\ ~last.ret.v => db[i].status = last.before[i]
    /\ (Reconciled /\ ReaderWorked) =>
          \A k \in DOMAIN last.calls :
              last.calls[k].fn = "check_for_responses" =>
                  \A i \in RowsOf(db, last.calls[k].arg) :
                      /\ last.calls[k].ret = ClassifiedGenuine(db[i])
                      /\ last.calls[k].ret => db[i].status = "responded"

(***************************************************************************)
(* C5.  A message whose references contain the record's key and whose      *)
(* body contains "out of office" is a reply and is automatic; a record     *)
(* that only such messages refer to is never marked responded, and no      *)
(* check_for_responses on it, direct or within reconcile(), returns true.  *)
(***************************************************************************)
OnlyOutOfOfficeFor(row) ==
    \A m \in inbox : RefersTo(m, row) => (row.email_id.v \in m.references /\ OutOfOffice(m))

C5_OutOfOfficeIsAutomatic ==
    \A i \in DOMAIN db :
        /\ \A m \in inbox :
              (db[i].email_id.v \in m.references /\ OutOfOffice(m))
              => (IsReplyTo(m, db[i].email_id) /\ _is_auto_reply(m))
        /\ OnlyOutOfOfficeFor(db[i]) =>
              /\ db[i].status # "responded"
              /\ (last.op = "check_for_responses" /\ i \in RowsOf(db, last.arg))
                    => last.ret.v = FALSE
              /\ \A k \in DOMAIN last.calls :
                    (last.calls[k].fn = "check_for_responses"
                        /\ i \in RowsOf(db, last.calls[k].arg))
                    => last.calls[k].ret = FALSE

\* check_for_responses, by correlation key and with the reader at work, has
\* just examined a record whose only reply is an out-of-office message
C5_Witness ==
    /\ last.op = "check_for_responses"
    /\ last.arg.t = "text"
    /\ imap_connected
    /\ last.fault = "none"
    /\ \E i \in RowsOf(db, last.arg) :
          /\ OnlyOutOfOfficeFor(db[i])
          /\ \E m \in Fetched(db[i]) : db[i].email_id.v \in m.references /\ OutOfOffice(m)

(***************************************************************************)
(* C6.  A fetched message counts as a received response to a tracked       *)
(* record if and only if the record's key appears in its references or     *)
(* in-reply-to field, no auto-reply marker header is present and its       *)
(* lower-cased body contains no configured auto-reply phrase.              *)
(***************************************************************************)
C6_ResponseIffReferencedAndNotAutomatic ==
    \A i \in DOMAIN db :
        \A m \in Fetched(db[i]) :
            (m \in check_for_replies(ReaderUp, db[i].email_id, db[i].subject))
            <=> (RefersTo(m, db[i]) /\ ~HasMarkerHeader(m) /\ ~HasAutoPhrase(m))

(***************************************************************************)
(* C7.  A candidate reply carrying an auto-reply marker header is          *)
(* classified automatic whatever the letter case of the header's name.     *)
(***************************************************************************)
C7_MarkerHeaderAnyCase ==
    \A i \in DOMAIN db :
        \A m \in inbox :
            (RefersTo(m, db[i]) /\ HasMarkerHeader(m)) => _is_auto_reply(m)

(***************************************************************************)
(* Registration as the properties state it.                                *)
(***************************************************************************)
\* the correlation key add_followup derives for an email_data
KeyOf(e) == generate_email_id(e.sender, Text(e.subject), e.sent_date).v

\* a stored row was registered with the same sender, subject and sent date
SameEmail(row, e) ==
    /\ row.sender = e.sender
    /\ row.subject = e.subject
    /\ Ticks(row.sent_date) = e.sent_date.ticks

ValidEmailData(e) == validate_email(e.recipient) /\ e.delay_days >= 1

(***************************************************************************)
(* C8.  add_followup with valid data whose correlation key is not stored   *)
(* yet appends exactly one record, whose followup_date is the sent date    *)
(* plus delay_days days exactly, whose status is pending and whose         *)
(* followup_count is 0, and returns that record's id.                      *)
(***************************************************************************)
C8_RegisterPersistsRecord ==
    [][ (last'.op = "add_followup" /\ ValidEmailData(last'.data) /\ KeyOf(last'.data) \notin Keys)
        => /\ Len(db') = Len(db) + 1
           /\ SubSeq(db', 1, Len(db)) = db
           /\ LET row == db'[Len(db')]
              IN  /\ row.email_id.v = KeyOf(last'.data)
                  /\ Ticks(row.sent_date) = last'.data.sent_date.ticks
                  /\ Ticks(row.followup_date)
                        = last'.data.sent_date.ticks + last'.data.delay_days * TicksPerDay
                  /\ row.status = "pending"
                  /\ row.followup_count = 0
                  /\ last'.ret = PyInt(row.id)
                  /\ \A i \in DOMAIN db : db[i].id # row.id ]_vars

\* a second record has just been registered and its id returned
C8_Witness ==
    /\ last.op = "add_followup"
    /\ ValidEmailData(last.data)
    /\ Len(db) = 2
    /\ last.ret = PyInt(db[2].id)
    /\ db[2].email_id.v = KeyOf(last.data)

(***************************************************************************)
(* C9.  No two stored records have the same correlation key (email_id).    *)
(***************************************************************************)
C9_UniqueCorrelationKey ==
    \A i, j \in DOMAIN db : db[i].email_id.v = db[j].email_id.v => i = j

\* two records are stored and a registration of a stored key was just refused
C9_Witness ==
    /\ Len(db) = 2
    /\ last.op = "add_followup"
    /\ KeyOf(last.data) \in Keys
    /\ IsNone(last.ret)

(***************************************************************************)
(* C10.  add_followup for a sender, subject and sent date that a stored    *)
(* record already has returns no id and leaves the table as it was: no     *)
(* record added, every stored record unchanged.                            *)
(***************************************************************************)
C10_DuplicateRejected ==
    [][ (last'.op = "add_followup" /\ \E i \in DOMAIN db : SameEmail(db[i], last'.data))
        => (IsNone(last'.ret) /\ db' = db /\ next_id' = next_id) ]_vars

\* a registration was refused although it asked for another delay and
\* recipient than the stored record of the same sender, subject and sent date
C10_Witness ==
    /\ last.op = "add_followup"
    /\ IsNone(last.ret)
    /\ \E i \in DOMAIN db :
          /\ SameEmail(db[i], last.data)
          /\ db[i].delay_days # last.data.delay_days
          /\ db[i].recipient # last.data.recipient
          /\ db[i].status = "pending"

(***************************************************************************)
(* The engine called directly.  EmailManager.add_followup takes whatever   *)
(* dictionary its caller passes; only the dialog of the main window looks  *)
(* at the recipient and bounds the delay before it calls.  This            *)
(* specification registers such dictionaries, with sent dates that fall    *)
(* between two whole seconds, and reconciles at every instant of interest. *)
(***************************************************************************)
\* the email_data dictionaries any caller of add_followup may pass
AnyEmailData ==
    RegisterInputs \cup
    { EmailData("a", AddrBad, <<"d">>, 0, 1, PyStr("<m5>")),
      EmailData("a", AddrOk, <<"e">>, TicksPerDay, 0 - 1, PyStr("<m6>")),
      EmailData("a", AddrOk, <<"f">>, 0, 0, PyStr("<m7>")),
      EmailData("a", AddrOk, <<"g">>, 1, 1, PyStr("<m8>")) }

\* the instants at which this specification looks at the clock
Instants == ClockPoints \cup {TicksPerDay + 1}

EngineNext ==
    \/ \E e \in AnyEmailData : Register(e)
    \/ \E t \in Instants : Tick(t)
    \/ \E i, s \in BOOLEAN : Connect(i, s)
    \/ \E f \in Faults : Reconcile(f)

EngineSpec == Init /\ [][EngineNext]_vars

(***************************************************************************)
(* C11.  add_followup called with a recipient that fails the syntactic     *)
(* address check, or with a delay below one day, returns no id and stores  *)
(* no record: every stored record has a well-formed recipient and a delay  *)
(* of at least one day.                                                    *)
(***************************************************************************)
C11_InvalidInputRejected ==
    /\ (last.op = "add_followup" /\ ~ValidEmailData(last.data)) => IsNone(last.ret)
    /\ \A i \in DOMAIN db : validate_email(db[i].recipient) /\ db[i].delay_days >= 1

(***************************************************************************)
(* C12.  Every stored record has followup_date >= sent_date.               *)
(***************************************************************************)
C12_FollowupNotBeforeSent ==
    \A i \in DOMAIN db : Ticks(db[i].followup_date) >= Ticks(db[i].sent_date)

(***************************************************************************)
(* The store written from outside the engine.  The statuses sent,          *)
(* responded and failed reach a record through                             *)
(* DatabaseManager.update_followup_status(rowid, status); this             *)
(* specification lets a manual intervention make that call once on a       *)
(* pending record, next to the operations of the engine with the           *)
(* transports at work and the genuine replies of the correspondents.       *)
(***************************************************************************)
Statuses == {"sent", "responded", "failed"}

\* db.update_followup_status(rowid, status) by hand
SetStatus(i, status) ==
    /\ db[i].status = "pending"
    /\ db' = update_followup_status(db, PyInt(db[i].id), status, FALSE, clock)
    /\ last' = Idle
    /\ run' = NoRun
    /\ UNCHANGED <<next_id, clock, inbox, outbox, imap_connected, smtp_connected, sched, threads>>

\* the replies without any mark of an automatic answer
PlainReplies(row) ==
    {m \in MessagesFor(row) : m.references # {} /\ m.headers = {"Received"} /\ ~HasAutoPhrase(m)}

StoreNext ==
    \/ \E e \in RegisterInputs : Register(e)
    \/ Tick(MaxDays * TicksPerDay)
    \/ \E i \in DOMAIN db : \E m \in PlainReplies(db[i]) : Deliver(m)
    \/ Connect(TRUE, TRUE)
    \/ \E i \in DOMAIN db : \E st \in Statuses : SetStatus(i, st)
    \/ Reconcile("none")
    \/ \E h \in Handles : CheckForResponses(h, "none")
    \/ \E h \in Handles : SendFollowup(h, "none")

StoreSpec == Init /\ [][StoreNext]_vars

EngineOps == {"check_for_responses", "send_followup", "process_pending_followups"}

(***************************************************************************)
(* C13.  responded and failed are terminal: no operation of the engine     *)
(* (check_for_responses, send_followup, reconcile()) changes the status of *)
(* a record that is responded or failed, and none takes a sent record back *)
(* to pending.                                                             *)
(***************************************************************************)
C13_TerminalStatuses ==
    [][ (last'.op \in EngineOps) =>
            \A i \in DOMAIN db :
                /\ db[i].status \in {"responded", "failed"} => db'[i].status = db[i].status
                /\ db[i].status = "sent" => db'[i].status # "pending" ]_vars

\* check_for_responses has just found a genuine reply to a record that was
\* failed, and the record is failed still
C13_Witness ==
    /\ last.op = "check_for_responses"
    /\ last.ret = PyBool(TRUE)
    /\ \E i \in RowsOf(db, last.arg) : last.before[i] = "failed" /\ db[i].status = "failed"

(***************************************************************************)
(* Sending, as the properties state it.                                    *)
(***************************************************************************)
\* the sender would accept a follow-up for the record during the operation
\* that ends in the next state
SenderWorks(row) ==
    /\ smtp_connected
    /\ last'.fault = "none"
    /\ validate_email(row.recipient)
    /\ ~IsNone(row.metadata.original_message_id)

\* the sender refuses or raises during the operation that ends in the next state
SenderFails == ~smtp_connected \/ last'.fault = "smtp"

\* the calls of send_followup for a record among the calls of a pass
SendCalls(calls, row) ==
    {k \in DOMAIN calls : calls[k].fn = "send_followup" /\ calls[k].arg = PyInt(row.id)}

C15_SendSucceeds ==
    [][ (last'.op = "send_followup") =>
            \A i \in RowsOf(db, last'.arg) :
                ( /\ db[i].status = "pending"
                  /\ Due(db[i])
                  /\ ~ClassifiedGenuine(db[i])
                  /\ SenderWorks(db[i]) )
                => ( /\ last'.ret = PyBool(TRUE)
                     /\ db'[i].status = "sent"
                     /\ db'[i].followup_count = db[i].followup_count + 1
                     /\ db'[i].last_check_date = CURRENT_TIMESTAMP(clock)
                     /\ outbox' = Append(outbox, FollowupMessage(db[i])) ) ]_vars

(***************************************************************************)
(* C16.  When the sender refuses or raises, send_followup returns false    *)
(* and leaves the record as it was, pending with the same followup_count;  *)
(* every reconcile() pass that finds the record pending and due calls      *)
(* send_followup for it, so the pass after a failed one tries again.       *)
(***************************************************************************)
C16_SendFailureLeavesPending ==
    [][ /\ (last'.op = "send_followup" /\ SenderFails) =>
              \A i \in RowsOf(db, last'.arg) :
                  (db[i].status = "pending" /\ ~ClassifiedGenuine(db[i]))
                  => (last'.ret = PyBool(FALSE) /\ db'[i] = db[i] /\ outbox' = outbox)
        /\ (last'.op = "process_pending_followups" /\ SenderFails) =>
              \A i \in DOMAIN db :
                  (db[i].status = "pending" /\ Due(db[i]))
                  => ( /\ SendCalls(last'.calls, db[i]) # {}
                       /\ \A k \in SendCalls(last'.calls, db[i]) : last'.calls[k].ret = FALSE
                       /\ db'[i] = db[i]
                       /\ outbox' = outbox ) ]_vars

\* a second reconcile() pass in succession, the sender failing, has called
\* send_followup again for a record that is pending still
C16_Witness ==
    /\ Reconciled
    /\ run.passes >= 2
    /\ ~smtp_connected \/ last.fault = "smtp"
    /\ \E i \in DOMAIN db :
          /\ db[i].status = "pending"
          /\ Due(db[i])
          /\ NoReplyFor(db[i])
          /\ SendCalls(last.calls, db[i]) # {}

(***************************************************************************)
(* Reconciliation passes, as the properties state them.                    *)
(***************************************************************************)
\* the calls a pass made for a record
CallsFor(calls, row) == {k \in DOMAIN calls : calls[k].arg = PyInt(row.id)}

(***************************************************************************)
(* C17.  reconcile() attempts a record if and only if, at the time of the  *)
(* query, its status is pending and followup_date <= now, the instant      *)
(* followup_date itself included; a record that is not pending or not due  *)
(* is neither sent for nor modified by the pass.                           *)
(***************************************************************************)
C17_AttemptedIffPendingAndDue ==
    [][ (last'.op = "process_pending_followups") =>
            \A i \in DOMAIN db :
                /\ (CallsFor(last'.calls, db[i]) # {})
                      <=> (db[i].status = "pending" /\ Ticks(db[i].followup_date) <= clock)
                /\ ~(db[i].status = "pending" /\ Ticks(db[i].followup_date) <= clock)
                      => (db'[i] = db[i] /\ SentFor(db[i].id)' = SentFor(db[i].id)) ]_vars

(***************************************************************************)
(* C18.  Within one reconcile() pass the records are processed in          *)
(* ascending followup_date order: a call made for a record comes before    *)
(* every call made for a record with a later followup_date.                *)
(***************************************************************************)
C18_AscendingFollowupDate ==
    Reconciled =>
        \A k, l \in DOMAIN last.calls :
            k < l =>
                \A i \in RowsOf(db, last.calls[k].arg), j \in RowsOf(db, last.calls[l].arg) :
                    Ticks(db[i].followup_date) <= Ticks(db[j].followup_date)

\* a pass has processed two records, the one stored second, with the
\* earlier followup_date, first
C18_Witness ==
    /\ Reconciled
    /\ Len(db) = 2
    /\ Ticks(db[2].followup_date) < Ticks(db[1].followup_date)
    /\ CallsFor(last.calls, db[1]) # {}
    /\ CallsFor(last.calls, db[2]) # {}
    /\ \A k \in CallsFor(last.calls, db[2]) : \A l \in CallsFor(last.calls, db[1]) : k < l

(***************************************************************************)
(* C19.  Partial-failure isolation: every record that is pending and due   *)
(* when a reconcile() pass starts is processed by the pass, whatever       *)
(* happened to the records before it, and a record whose processing failed *)
(* is stored as it was.                                                    *)
(***************************************************************************)
C19_PartialFailureIsolation ==
    [][ (last'.op = "process_pending_followups") =>
            \A i \in DOMAIN db :
                (db[i].status = "pending" /\ Due(db[i]))
                => ( /\ \E k \in CallsFor(last'.calls, db[i]) :
                            last'.calls[k].fn = "check_for_responses"
                     /\ (\E k \in SendCalls(last'.calls, db[i]) : last'.calls[k].ret = FALSE)
                            => db'[i] = db[i] ) ]_vars

\* a pass in which the first record's processing failed has gone on to the
\* second record
C19_Witness ==
    /\ Reconciled
    /\ Len(last.calls) >= 4
    /\ last.calls[2].fn = "send_followup"
    /\ last.calls[2].ret = FALSE
    /\ last.calls[3].fn = "check_for_responses"
    /\ last.calls[3].arg # last.calls[2].arg
    /\ \A i \in DOMAIN db : db[i].status = "pending"

(***************************************************************************)
(* scheduler.py.  The Scheduler's methods are functions of the Scheduler   *)
(* object; events lists, in order, what an operation did to the timer,     *)
(* each reconciliation it ran and each signal it emitted.                  *)
(***************************************************************************)
check_interval == 1800     \* APP_SETTINGS['check_interval'], seconds
max_retries == 3           \* APP_SETTINGS['max_retries']
MinInterval == 60          \* set_check_interval: "Minimum 1 minute"

Event(s, e) == [s EXCEPT !.events = Append(@, e)]

\* Scheduler.stop
stop(s) ==
    IF s.is_running
    THEN Event([s EXCEPT !.timer_active = FALSE, !.is_running = FALSE], "timer.stop")
    ELSE s

\* Scheduler.check_emails that leaves the error count alone after a good cycle
check_emails_keeps_count(s, now, raised) ==
    LET began == Event(Event(s, "check_started"), "process_pending_followups")
        good == Event([began EXCEPT !.last_check = DateTime(now)], "check_completed(True)")
        bad == Event([Event([began EXCEPT !.error_count = @ + 1], "check_completed(False)")
                          EXCEPT !.error_signals = @ + 1],
                     "error_occurred")
    IN  IF ~raised THEN good
        ELSE IF bad.error_count >= max_retries THEN stop(bad)
        ELSE bad

\* Scheduler.check_emails that reports the error before the end of the cycle
check_emails_error_first(s, now, raised) ==
    LET began == Event(Event(s, "check_started"), "process_pending_followups")
        good == Event([began EXCEPT !.last_check = DateTime(now), !.error_count = 0,
                                    !.error_signals = 0],
                      "check_completed(True)")
        bad == Event([Event([began EXCEPT !.error_count = @ + 1], "error_occurred")
                          EXCEPT !.error_signals = @ + 1],
                     "check_completed(False)")
    IN  IF ~raised THEN good
        ELSE IF bad.error_count >= max_retries THEN stop(bad)
        ELSE bad

\* Scheduler.check_emails; raised: process_pending_followups let an exception out
check_emails(s, now, raised) ==
    LET began == Event(Event(s, "check_started"), "process_pending_followups")
        good == Event([began EXCEPT !.last_check = DateTime(now), !.error_count = 0,
                                    !.error_signals = 0],
                      "check_completed(True)")
        bad == Event([Event([began EXCEPT !.error_count = @ + 1], "check_completed(False)")
                          EXCEPT !.error_signals = @ + 1],
                     "error_occurred")
    IN  IF ~raised THEN good
        ELSE IF bad.error_count >= max_retries THEN stop(bad)
        ELSE bad

\* Scheduler.start with no test of is_running
start_unguarded(s, now, raised) ==
    check_emails(Event([s EXCEPT !.timer_active = TRUE,
                                 !.timer_interval = check_interval * 1000,
                                 !.timer_started = DateTime(now),
                                 !.is_running = TRUE,
                                 !.last_check = DateTime(now),
                                 !.error_count = 0,
                                 !.error_signals = 0], "timer.start"),
                 now, raised)

\* Scheduler.start that leaves the error count as it finds it
start_keeps_count(s, now, raised) ==
    IF ~s.is_running
    THEN check_emails(Event([s EXCEPT !.timer_active = TRUE,
                                      !.timer_interval = check_interval * 1000,
                                      !.timer_started = DateTime(now),
                                      !.is_running = TRUE,
                                      !.last_check = DateTime(now)], "timer.start"),
                      now, raised)
    ELSE s

\* Scheduler.start
start(s, now, raised) ==
    IF ~s.is_running
    THEN check_emails(Event([s EXCEPT !.timer_active = TRUE,
                                      !.timer_interval = check_interval * 1000,
                                      !.timer_started = DateTime(now),
                                      !.is_running = TRUE,
                                      !.last_check = DateTime(now),
                                      !.error_count = 0,
                                      !.error_signals = 0], "timer.start"),
                      now, raised)
    ELSE s

\* Scheduler.force_check
force_check(s, now, raised) ==
    IF s.is_running
    THEN LET stopped == Event([s EXCEPT !.timer_active = FALSE], "timer.stop")
             checked == check_emails(stopped, now, raised)
         IN  Event([checked EXCEPT !.timer_active = TRUE,
                                   !.timer_started = DateTime(now)], "timer.start")
    ELSE s

\* Scheduler.set_check_interval with no minimum
set_check_interval_unclamped(s, interval) ==
    IF s.is_running
    THEN Event([s EXCEPT !.timer_interval = interval * 1000], "timer.setInterval")
    ELSE s

\* Scheduler.set_check_interval
set_check_interval(s, interval) ==
    LET clamped == IF interval < MinInterval THEN MinInterval ELSE interval
    IN  IF s.is_running
        THEN Event([s EXCEPT !.timer_interval = clamped * 1000], "timer.setInterval")
        ELSE s

\* the Scheduler as an operation finds it: nothing done yet
Fresh == [sched EXCEPT !.events = <<>>]

\* the operation ran a reconciliation
Ran(s) == \E k \in DOMAIN s.events : s.events[k] = "process_pending_followups"

\* process_pending_followups without its handler over a query without its own:
\* the sqlite3.Error of a failing query gets out
PendingRaised_uncaught(fault) == fault = "store"

\* what process_pending_followups lets out to its caller: get_pending_followups
\* catches the sqlite3.Error of a failing query, check_for_responses and
\* send_followup catch every Exception, and so does process_pending_followups
PendingRaised(fault) == FALSE

\* the engine's part of a Scheduler operation: one reconciliation, or none
Cycle(op, s, fault) ==
    LET r == process_pending_followups(Env(fault), db)
    IN  IF Ran(s)
        THEN /\ Len(outbox) + Len(r.out) <= MaxOutbox
             /\ db' = r.db
             /\ outbox' = outbox \o r.out
             /\ run' = [passes |-> IF run.passes < MaxRun THEN run.passes + 1 ELSE MaxRun,
                         sent |-> run.sent \o RecordsOf(r.out)]
             /\ last' = Last(op, PyNone, PyNone, r.calls, fault, NoData,
                             [i \in DOMAIN db |-> db[i].status])
        ELSE /\ UNCHANGED <<db, outbox>>
             /\ run' = NoRun
             /\ last' = Last(op, PyNone, PyNone, <<>>, "none", NoData, <<>>)

Start(fault) ==
    LET s == start(Fresh, clock, PendingRaised(fault))
    IN  /\ sched' = s
        /\ Cycle("start", s, fault)
        /\ UNCHANGED <<next_id, clock, inbox, imap_connected, smtp_connected, threads>>

Stop ==
    /\ sched' = stop(Fresh)
    /\ UNCHANGED <<db, outbox>>
    /\ run' = NoRun
    /\ last' = Last("stop", PyNone, PyNone, <<>>, "none", NoData, <<>>)
    /\ UNCHANGED <<next_id, clock, inbox, imap_connected, smtp_connected, threads>>

\* check_timer.timeout: the interval has run out
Timeout(fault) ==
    LET s == check_emails(Fresh, clock, PendingRaised(fault))
    IN  /\ sched.timer_active
        /\ sched' = s
        /\ Cycle("check_emails", s, fault)
        /\ UNCHANGED <<next_id, clock, inbox, imap_connected, smtp_connected, threads>>

ForceCheck(fault) ==
    LET s == force_check(Fresh, clock, PendingRaised(fault))
    IN  /\ sched' = s
        /\ Cycle("force_check", s, fault)
        /\ UNCHANGED <<next_id, clock, inbox, imap_connected, smtp_connected, threads>>

SetCheckInterval(interval) ==
    /\ sched' = set_check_interval(Fresh, interval)
    /\ UNCHANGED <<db, outbox>>
    /\ run' = NoRun
    /\ last' = Last("set_check_interval", PyInt(interval), PyNone, <<>>, "none", NoData, <<>>)
    /\ UNCHANGED <<next_id, clock, inbox, imap_connected, smtp_connected, threads>>

\* the intervals, in seconds, a caller of set_check_interval may ask for
Intervals == {30, 120, check_interval}

SchedulerNext ==
    \/ \E e \in RegisterInputs : Register(e)
    \/ \E t \in ClockPoints : Tick(t)
    \/ \E i, s \in BOOLEAN : Connect(i, s)
    \/ \E f \in Faults : Start(f)
    \/ Stop
    \/ \E f \in Faults : Timeout(f)
    \/ \E f \in Faults : ForceCheck(f)
    \/ \E n \in Intervals : SetCheckInterval(n)

SchedulerSpec == Init /\ [][SchedulerNext]_vars

(***************************************************************************)
(* C20.  start() is idempotent: called while the scheduler is running it   *)
(* does nothing - no reconciliation, no timer start or restart, and        *)
(* is_running, the last-check time and the error count keep their values.  *)
(***************************************************************************)
C20_StartIdempotent ==
    [][ (last'.op = "start" /\ sched.is_running) =>
            /\ sched'.events = <<>>
            /\ sched'.is_running = sched.is_running
            /\ sched'.last_check = sched.last_check
            /\ sched'.error_count = sched.error_count
            /\ sched'.timer_active = sched.timer_active
            /\ sched'.timer_interval = sched.timer_interval
            /\ last'.calls = <<>>
            /\ db' = db
            /\ outbox' = outbox ]_vars

\* start() has just returned from a call made, at a later time and after
\* the interval was changed, while the scheduler was running
C20_Witness ==
    /\ last.op = "start"
    /\ sched.is_running
    /\ sched.events = <<>>
    /\ sched.timer_interval # check_interval * 1000
    /\ sched.last_check # DateTime(clock)

\* the events of an operation that are e, by position
Places(events, e) == {k \in DOMAIN events : events[k] = e}

\* start() has just returned from a call made on a stopped scheduler
Started == last.op = "start" /\ sched.events # <<>>

(***************************************************************************)
(* C21.  start() on a stopped scheduler sets is_running, runs exactly one  *)
(* reconciliation at once and only then starts the timer at the configured *)
(* interval; the timer is active on return only if the scheduler is still  *)
(* running.                                                                *)
(***************************************************************************)
C21_StartRunsCycleThenArms ==
    Started =>
        /\ Cardinality(Places(sched.events, "process_pending_followups")) = 1
        /\ \A t \in Places(sched.events, "timer.start") :
               \A c \in Places(sched.events, "check_completed(True)")
                        \cup Places(sched.events, "check_completed(False)") : c < t
        /\ sched.is_running => /\ sched.timer_active
                               /\ sched.timer_interval = check_interval * 1000
        /\ sched.timer_active => sched.is_running

(***************************************************************************)
(* The Scheduler on its own.  check_emails provides, in its except branch, *)
(* for a process_pending_followups that raises; the EmailManager of this   *)
(* repository never does (PendingRaised), so here the Scheduler's          *)
(* email_manager is any object: each reconciliation either returns or      *)
(* raises, and touches no record.                                          *)
(***************************************************************************)
\* the failing cycles in a row that are followed
MaxErrors == 4

\* the Scheduler operations that may run a reconciliation
CycleOps == {"start", "check_emails", "force_check"}

\* the reconciliation of the operation that gave s raised
Failed(s) == Places(s.events, "check_completed(False)") # {}

\* what is left of an operation whose reconciliation, if it ran one, raised or not
Attempt(op, s, raised) ==
    /\ UNCHANGED <<db, outbox>>
    /\ run' = NoRun
    /\ last' = Last(op, PyNone, PyNone, <<>>, IF Ran(s) /\ raised THEN "raised" ELSE "none",
                    NoData, <<>>)

StartWith(raised) ==
    LET s == start(Fresh, clock, raised)
    IN  /\ sched' = s
        /\ Attempt("start", s, raised)
        /\ UNCHANGED <<next_id, clock, inbox, imap_connected, smtp_connected, threads>>

\* check_timer.timeout
TimeoutWith(raised) ==
    LET s == check_emails(Fresh, clock, raised)
    IN  /\ sched.timer_active
        /\ raised => sched.error_count < MaxErrors
        /\ sched' = s
        /\ Attempt("check_emails", s, raised)
        /\ UNCHANGED <<next_id, clock, inbox, imap_connected, smtp_connected, threads>>

ForceCheckWith(raised) ==
    LET s == force_check(Fresh, clock, raised)
    IN  /\ sched' = s
        /\ Attempt("force_check", s, raised)
        /\ UNCHANGED <<next_id, clock, inbox, imap_connected, smtp_connected, threads>>

SchedulerFaultNext ==
    \/ \E t \in ClockPoints : Tick(t)
    \/ \E raised \in BOOLEAN : StartWith(raised)
    \/ Stop
    \/ \E raised \in BOOLEAN : TimeoutWith(raised)
    \/ \E raised \in BOOLEAN : ForceCheckWith(raised)
    \/ \E n \in Intervals : SetCheckInterval(n)

SchedulerFaultSpec == Init /\ [][SchedulerFaultNext]_vars

\* the operation that has just returned stopped the scheduler after an error
AutoStopped(s) ==
    \E e \in Places(s.events, "error_occurred") :
        \E t \in Places(s.events, "timer.stop") : e < t

(***************************************************************************)
(* C22.  Failure escalation: a cycle that succeeds sets the error count to *)
(* 0, a cycle whose reconciliation raises adds 1 to it; a cycle stops a    *)
(* running scheduler exactly when it brings the count to max_retries, so   *)
(* only as the third failure in a row.                                     *)
(***************************************************************************)
C22_FailureEscalation ==
    [][ (last'.op \in CycleOps /\ Ran(sched')) =>
            LET began == last'.op = "start"
                count == IF began THEN 0 ELSE sched.error_count
                running == began \/ sched.is_running
                stopped == running /\ ~sched'.is_running
            IN  /\ ~Failed(sched') => sched'.error_count = 0
                /\ Failed(sched') => sched'.error_count = count + 1
                /\ (Failed(sched') /\ sched'.error_count = max_retries)
                       => ~sched'.is_running
                /\ stopped => /\ Failed(sched')
                              /\ sched'.error_count = max_retries
                              /\ count = max_retries - 1 ]_vars

\* the timer has fired for the third failing cycle in a row and the
\* scheduler has stopped itself
C22_Witness ==
    /\ last.op = "check_emails"
    /\ Failed(sched)
    /\ AutoStopped(sched)
    /\ sched.error_count = max_retries
    /\ ~sched.is_running

(***************************************************************************)
(* C23.  Three failing cycles in a row, with max_retries = 3, make the     *)
(* scheduler emit exactly one error notification over the whole            *)
(* escalation.                                                             *)
(***************************************************************************)
C23_OneFatalNotification ==
    (last.op \in CycleOps /\ AutoStopped(sched)) => sched.error_signals = 1

(***************************************************************************)
(* C24.  When stop() returns the scheduler is not running and its timer is *)
(* not active, whatever start, stop, force_check, set_check_interval and   *)
(* timer fires came before, automatic stops included; stop() on a stopped  *)
(* scheduler changes nothing.                                              *)
(***************************************************************************)
C24_StopCancelsTimer ==
    [][ last'.op = "stop" =>
            /\ ~sched'.is_running
            /\ ~sched'.timer_active
            /\ ~sched.is_running => sched' = Fresh ]_vars

\* the reconciliations the operation that has just returned ran
Reconciliations(s) == Cardinality(Places(s.events, "process_pending_followups"))

(***************************************************************************)
(* C25.  force_check() on a scheduler that is not running runs exactly one *)
(* reconciliation and changes no scheduling state: is_running stays false  *)
(* and the timer stays as it was.                                          *)
(***************************************************************************)
C25_ForceCheckWhenStopped ==
    [][ (last'.op = "force_check" /\ ~sched.is_running) =>
            /\ Reconciliations(sched') = 1
            /\ ~sched'.is_running
            /\ sched'.timer_active = sched.timer_active
            /\ sched'.timer_interval = sched.timer_interval
            /\ sched'.timer_started = sched.timer_started ]_vars

(***************************************************************************)
(* C26.  force_check() on a running scheduler runs one reconciliation at   *)
(* once and leaves the schedule alone: the timer still fires at the times  *)
(* it would have fired at without the call.                                *)
(***************************************************************************)
C26_ForceCheckKeepsSchedule ==
    [][ (last'.op = "force_check" /\ sched.is_running) =>
            /\ Reconciliations(sched') = 1
            /\ sched'.timer_active = sched.timer_active
            /\ sched'.timer_interval = sched.timer_interval
            /\ sched'.timer_started = sched.timer_started ]_vars

(***************************************************************************)
(* C27.  set_check_interval(n) raises an n below 60 seconds to 60 and      *)
(* keeps any other n; on a running scheduler the timer's interval becomes  *)
(* max(n, 60) seconds, so an interval set through it is never below 60     *)
(* seconds.                                                                *)
(***************************************************************************)
C27_IntervalClamped ==
    [][ (last'.op = "set_check_interval" /\ sched.is_running) =>
            LET n == last'.arg.v
            IN  /\ n < 60 => sched'.timer_interval = 60 * 1000
                /\ n >= 60 => sched'.timer_interval = n * 1000
                /\ sched'.timer_interval >= 60 * 1000 ]_vars

\* set_check_interval(30) has just returned on a running scheduler
C27_Witness ==
    /\ last.op = "set_check_interval"
    /\ last.arg = PyInt(30)
    /\ sched.is_running
    /\ sched.events = <<"timer.setInterval">>
    /\ sched.timer_interval = 60 * 1000

(***************************************************************************)
(* Who runs process_pending_followups.  The Scheduler's timer, force_check *)
(* and start run it on the main thread, from the event loop; the thread of *)
(* EmailManager.start_automatic_checking runs it in its own loop.  A call  *)
(* is in flight from its entry to its return.  threads.main is the stack   *)
(* of what the main thread is inside of: "pass" (a reconciliation),        *)
(* "dialog" (a modal QMessageBox opened by a listener of check_completed   *)
(* or error_occurred, which runs the event loop again) or "join"           *)
(* (stop_automatic_checking waiting for the thread).                       *)
(***************************************************************************)
\* the calls the main thread may be inside of, one within the other
MaxDepth == 2

Top(stack) == IF stack = <<>> THEN "loop" ELSE stack[Len(stack)]
Pop(stack) == SubSeq(stack, 1, Len(stack) - 1)

\* the main thread is running an event loop, so it takes events
InEventLoop == Top(threads.main) \in {"loop", "dialog"}

\* _check_thread and _check_thread.is_alive()
IsAlive == threads.check_thread \in {"test", "pass", "sleep"}

\* check_timer.timeout, force_check or start: check_emails enters
\* process_pending_followups
EnterPass ==
    /\ InEventLoop
    /\ Len(threads.main) < MaxDepth
    /\ threads' = [threads EXCEPT !.main = Append(@, "pass")]
    /\ UNCHANGED <<db, next_id, clock, inbox, outbox, imap_connected, smtp_connected,
                   last, run, sched>>

\* process_pending_followups returns to check_emails, whose listeners
\* (MainWindow.on_check_completed, MainWindow.on_error) return at once or
\* open a modal message box
LeavePass(fault, dialog) ==
    /\ Top(threads.main) = "pass"
    /\ Pass(fault)
    /\ threads' = [threads EXCEPT
                       !.main = IF dialog THEN Append(Pop(@), "dialog") ELSE Pop(@)]

\* the user closes the message box
CloseDialog ==
    /\ Top(threads.main) = "dialog"
    /\ threads' = [threads EXCEPT !.main = Pop(@)]
    /\ UNCHANGED <<db, next_id, clock, inbox, outbox, imap_connected, smtp_connected,
                   last, run, sched>>

\* EmailManager.start_automatic_checking
start_automatic_checking ==
    /\ InEventLoop
    /\ threads' = IF IsAlive THEN threads
                  ELSE [threads EXCEPT !.stop_flag = FALSE, !.check_thread = "test"]
    /\ last' = Idle
    /\ UNCHANGED <<db, next_id, clock, inbox, outbox, imap_connected, smtp_connected,
                   run, sched>>

\* check_loop: while not self._stop_flag
CheckLoopTest ==
    /\ threads.check_thread = "test"
    /\ threads' = [threads EXCEPT
                       !.check_thread = IF threads.stop_flag THEN "ended" ELSE "pass"]
    /\ UNCHANGED <<db, next_id, clock, inbox, outbox, imap_connected, smtp_connected,
                   last, run, sched>>

\* check_loop: process_pending_followups returns.  The sqlite3 connection
\* belongs to the main thread: in this thread get_pending_followups fails,
\* is caught and gives [], so the pass reads and writes no record.
CheckLoopPass ==
    /\ threads.check_thread = "pass"
    /\ threads' = [threads EXCEPT !.check_thread = "sleep"]
    /\ UNCHANGED <<db, next_id, clock, inbox, outbox, imap_connected, smtp_connected,
                   last, run, sched>>

\* check_loop: time.sleep(check_interval) returns
CheckLoopWake ==
    /\ threads.check_thread = "sleep"
    /\ threads' = [threads EXCEPT !.check_thread = "test"]
    /\ UNCHANGED <<db, next_id, clock, inbox, outbox, imap_connected, smtp_connected,
                   last, run, sched>>

\* EmailManager.stop_automatic_checking, up to the join
stop_automatic_checking ==
    /\ InEventLoop
    /\ Len(threads.main) < MaxDepth
    /\ threads' = [threads EXCEPT !.stop_flag = TRUE, !.main = Append(@, "join")]
    /\ last' = Idle
    /\ UNCHANGED <<db, next_id, clock, inbox, outbox, imap_connected, smtp_connected,
                   run, sched>>

\* self._check_thread.join() returns
Joined ==
    /\ Top(threads.main) = "join"
    /\ ~IsAlive
    /\ threads' = [threads EXCEPT !.main = Pop(@)]
    /\ UNCHANGED <<db, next_id, clock, inbox, outbox, imap_connected, smtp_connected,
                   last, run, sched>>

ThreadsNext ==
    \/ \E e \in RegisterInputs : InEventLoop /\ Register(e)
    \/ InEventLoop /\ Tick(MaxDays * TicksPerDay)
    \/ InEventLoop /\ Connect(TRUE, TRUE)
    \/ EnterPass
    \/ \E f \in Faults, dialog \in BOOLEAN : LeavePass(f, dialog)
    \/ CloseDialog
    \/ start_automatic_checking
    \/ CheckLoopTest
    \/ CheckLoopPass
    \/ CheckLoopWake
    \/ stop_automatic_checking
    \/ Joined

ThreadsSpec == Init /\ [][ThreadsNext]_vars

\* the calls of process_pending_followups that have been entered and have
\* not returned
InFlight ==
    Cardinality(Places(threads.main, "pass"))
        + (IF threads.check_thread = "pass" THEN 1 ELSE 0)

(***************************************************************************)
(* C28.  At most one reconciliation pass is in flight at any time: timer   *)
(* fires, force_check, the first check of start and the thread of          *)
(* start_automatic_checking never run process_pending_followups at the     *)
(* same time or one inside the other.                                      *)
(***************************************************************************)
C28_SinglePassInFlight == InFlight <= 1

(***************************************************************************)
(* Replies that come after the follow-up.  A record is marked sent by      *)
(* update_followup_status, as a successful send does; a correspondent      *)
(* answers a record only once it is sent, so every reply in the INBOX      *)
(* arrived after the follow-up of its record.                              *)
(***************************************************************************)
\* a correspondent answers the follow-up of a record
ReplyToFollowup(i, m) == db[i].status = "sent" /\ Deliver(m)

AfterSendNext ==
    \/ \E e \in RegisterInputs : Register(e)
    \/ \E t \in ClockPoints : Tick(t)
    \/ \E i, s \in BOOLEAN : Connect(i, s)
    \/ \E i \in DOMAIN db : SetStatus(i, "sent")
    \/ \E i \in DOMAIN db : \E m \in PlainReplies(db[i]) : ReplyToFollowup(i, m)
    \/ \E f \in Faults : Reconcile(f)

AfterSendSpec == Init /\ [][AfterSendNext]_vars

(***************************************************************************)
(* C29.  A record whose status is sent never goes back to pending, and a   *)
(* reconciliation run with a working reader while the INBOX holds a        *)
(* genuine reply to it, arrived after the follow-up, makes it responded.   *)
(***************************************************************************)
C29_SentThenResponded ==
    [][ \A i \in DOMAIN db :
            db[i].status = "sent" =>
                /\ db'[i].status # "pending"
                /\ ( /\ last'.op = "process_pending_followups"
                     /\ imap_connected
                     /\ last'.fault = "none"
                     /\ \E m \in inbox : RefersTo(m, db[i]) )
                       => db'[i].status = "responded" ]_vars

(***************************************************************************)
(* C30.  No operation of the engine sets a status to failed, and a record  *)
(* whose send fails in a reconcile() pass is pending after the pass, be it *)
(* the first pass or a later one: nothing counts or caps the attempts.     *)
(***************************************************************************)
C30_NoAutomaticFailure ==
    /\ \A i \in DOMAIN db : db[i].status # "failed"
    /\ Reconciled =>
          \A i \in DOMAIN db :
              (\E k \in SendCalls(last.calls, db[i]) : last.calls[k].ret = FALSE)
                  => db[i].status = "pending"

\* the last pass of a succession as long as is followed, the sender down in
\* each: send_followup has failed once more for a due record, still pending
C30_Witness ==
    /\ Reconciled
    /\ run.passes = MaxRun
    /\ ~smtp_connected
    /\ imap_connected
    /\ \E i \in DOMAIN db :
          /\ Due(db[i])
          /\ last.before[i] = "pending"
          /\ db[i].status = "pending"
          /\ \E k \in SendCalls(last.calls, db[i]) : last.calls[k].ret = FALSE

(***************************************************************************)
(* The reader failing.  A transport error reaches check_for_replies as an  *)
(* imaplib.IMAP4.error (imaplib's own, and what it makes of a failed send) *)
(* or as the OSError of the socket (a read that times out or is reset).    *)
(***************************************************************************)
ReaderFaults == {"none", "imap", "oserror"}

ReaderNext ==
    \/ \E e \in RegisterInputs : Register(e)
    \/ \E i \in DOMAIN db : \E m \in MessagesFor(db[i]) : Deliver(m)
    \/ \E i, s \in BOOLEAN : Connect(i, s)
    \/ \E h \in Handles, f \in ReaderFaults : CheckForResponses(h, f)
    \/ \E f \in ReaderFaults : Reconcile(f)

ReaderSpec == Init /\ [][ReaderNext]_vars

\* the reader did not do its work: not connected, or a transport error
ReaderFailed == ~imap_connected \/ last.fault \in {"imap", "oserror"}

(***************************************************************************)
(* C31.  A failure of the reader never makes a response: when the reader   *)
(* is not connected or its search or fetch fails with a transport error,   *)
(* check_for_replies gives the empty list and does not raise,              *)
(* check_for_responses returns false and no status changes.                *)
(***************************************************************************)
C31_ReaderFailureNoResponse ==
    (last.op = "check_for_responses" /\ ReaderFailed) =>
        /\ last.ret = PyBool(FALSE)
        /\ \A i \in DOMAIN db : db[i].status = last.before[i]
        /\ get_followup_by_email_id(db, last.arg).found =>
              LET row == get_followup_by_email_id(db, last.arg).row
              IN  /\ ~check_for_replies_raises(Env(last.fault))
                  /\ check_for_replies(Env(last.fault), row.email_id, row.subject) = {}

\* a signal that carries a record id, as it stands in events
Signal(name, id) == name \o "(" \o ToString(id) \o ")"

CycleSignals(events) ==
    SelectSeq(events, LAMBDA e : e \in {"check_started", "check_completed(True)",
                                        "check_completed(False)", "error_occurred"})

(***************************************************************************)
(* C33.  A cycle of check_emails emits check_started first, then exactly   *)
(* one check_completed(flag), flag being true exactly when the             *)
(* reconciliation of the cycle let no exception out; error_occurred is     *)
(* emitted in the cycles whose flag is false and in no other, after        *)
(* check_completed.                                                        *)
(***************************************************************************)
C33_CycleSignals ==
    (last.op \in CycleOps /\ Ran(sched)) =>
        /\ Reconciliations(sched) = 1
        /\ \A k \in Places(sched.events, "check_started") :
               \A r \in Places(sched.events, "process_pending_followups") : k < r
        /\ last.fault # "raised" =>
               CycleSignals(sched.events) = <<"check_started", "check_completed(True)">>
        /\ last.fault = "raised" =>
               CycleSignals(sched.events) =
                   <<"check_started", "check_completed(False)", "error_occurred">>

\* force_check has just run a cycle whose reconciliation raised, after one
\* that did not
C33_Witness ==
    /\ last.op = "force_check"
    /\ last.fault = "raised"
    /\ sched.error_count = 1
    /\ sched.is_running
    /\ Places(sched.events, "error_occurred") # {}

(***************************************************************************)
(* C34.  Between operations the timer is active if and only if is_running  *)
(* is true, whatever start, stop, force_check, set_check_interval and      *)
(* timer fires came before, their cycles succeeding or failing.            *)
(***************************************************************************)
C34_TimerActiveIffRunning == sched.timer_active <=> sched.is_running

(***************************************************************************)
(* C35.  Between operations is_running implies 0 <= _error_count <         *)
(* _max_errors, and start() begins a run with _error_count = 0: when it    *)
(* returns the count is what its own first cycle made of 0.                *)
(***************************************************************************)
C35_ErrorCountInRange ==
    /\ sched.is_running => (0 <= sched.error_count /\ sched.error_count < max_retries)
    /\ Started => sched.error_count = (IF last.fault = "raised" THEN 1 ELSE 0)

\* start() has just returned from a call whose first cycle failed: the run
\* has begun with one error counted and one signalled
C35_Witness ==
    /\ Started
    /\ last.fault = "raised"
    /\ sched.is_running
    /\ sched.error_count = 1
    /\ sched.error_signals = 1

(***************************************************************************)
(* The Scheduler driven by the EmailManager under every fault of the       *)
(* store, the reader and the sender.                                       *)
(***************************************************************************)
AllFaults == Faults \cup {"oserror", "store"}

DrivenNext ==
    \/ \E e \in RegisterInputs : Register(e)
    \/ Tick(MaxDays * TicksPerDay)
    \/ \E i, s \in BOOLEAN : Connect(i, s)
    \/ \E f \in AllFaults : Start(f)
    \/ Stop
    \/ \E f \in AllFaults : Timeout(f)
    \/ \E f \in AllFaults : ForceCheck(f)

DrivenSpec == Init /\ [][DrivenNext]_vars

C37_IntervalRetained ==
    [][ (last.op = "set_check_interval" /\ ~sched.is_running /\ last'.op = "start") =>
            LET n == last.arg.v
            IN  sched'.timer_interval = (IF n < 60 THEN 60 ELSE n) * 1000 ]_vars

(***************************************************************************)
(* Registrations whose senders and subjects share their letters.           *)
(***************************************************************************)
KeyInputs ==
    { EmailData("a", AddrOk, <<"bc">>, 0, 7, PyStr("<m1>")),
      EmailData("ab", AddrOk, <<"c">>, 0, 7, PyStr("<m2>")),
      EmailData("a", AddrOk, <<"c">>, 0, 7, PyStr("<m3>")),
      EmailData("a", AddrOk, <<"c">>, TicksPerDay, 7, PyStr("<m4>")) }

KeyNext ==
    \/ \E e \in KeyInputs : Register(e)
    \/ \E t \in ClockPoints : Tick(t)
    \/ \E i, s \in BOOLEAN : Connect(i, s)
    \/ \E f \in Faults : Reconcile(f)

KeySpec == Init /\ [][KeyNext]_vars

(***************************************************************************)
(* C38.  The correlation key is, up to the hash, free of collisions over   *)
(* (sender, subject, sent date): stored records with the same key have the *)
(* same triple, and a registration whose triple differs from that of every *)
(* stored record is not rejected as a duplicate.                           *)
(***************************************************************************)
C38_KeyCollisionFree ==
    [][ (last'.op = "add_followup" /\ \A i \in DOMAIN db : ~SameEmail(db[i], last'.data))
            => /\ ~IsNone(last'.ret)
               /\ \A i \in DOMAIN db : db[i].email_id.v # KeyOf(last'.data) ]_vars

(***************************************************************************)
(* Records added through the dialog of the main window: its followup_data  *)
(* has no message_id, so the stored original_message_id is None.           *)
(***************************************************************************)
DialogInputs ==
    { EmailData("a", AddrOk, <<"c">>, 0, 1, PyNone),
      EmailData("a", AddrOk, <<"bc">>, 0, 7, PyNone) }

DialogNext ==
    \/ \E e \in DialogInputs : Register(e)
    \/ \E t \in ClockPoints : Tick(t)
    \/ \E i, s \in BOOLEAN : Connect(i, s)
    \/ \E f \in Faults : Reconcile(f)
    \/ \E h \in Handles, f \in {"none", "smtp"} : SendFollowup(h, f)

DialogSpec == Init /\ [][DialogNext]_vars

NoMessageId(row) == IsNone(row.metadata.original_message_id)

(***************************************************************************)
(* C39.  For a record stored without original message id every attempt of *)
(* send_followup, direct or in a reconcile() pass, transmits nothing,      *)
(* returns false and leaves the record pending with the followup_count it  *)
(* had.                                                                    *)
(***************************************************************************)
C39_NoMessageIdNeverSent ==
    [][ \A i \in DOMAIN db :
            (NoMessageId(db[i]) /\ db[i].status = "pending") =>
                /\ (last'.op = "send_followup" /\ i \in RowsOf(db, last'.arg)) =>
                       /\ last'.ret = PyBool(FALSE)
                       /\ outbox' = outbox
                       /\ db'[i].status = "pending"
                       /\ db'[i].followup_count = db[i].followup_count
                /\ last'.op = "process_pending_followups" =>
                       /\ \A k \in SendCalls(last'.calls, db[i]) : last'.calls[k].ret = FALSE
                       /\ \A j \in DOMAIN outbox' : j > Len(outbox) => outbox'[j].record # db[i].id
                       /\ db'[i].status = "pending"
                       /\ db'[i].followup_count = db[i].followup_count ]_vars

\* a second pass in succession, both transports at work, has called
\* send_followup once more for a due record without message id: nothing
\* was ever transmitted and the record is pending with count 0
C39_Witness ==
    /\ Reconciled
    /\ run.passes >= 2
    /\ TransportsUp
    /\ outbox = <<>>
    /\ \E i \in DOMAIN db :
          /\ NoMessageId(db[i])
          /\ Due(db[i])
          /\ db[i].status = "pending"
          /\ db[i].followup_count = 0
          /\ SendCalls(last.calls, db[i]) # {}
          /\ \A k \in SendCalls(last.calls, db[i]) : last.calls[k].ret = FALSE

(***************************************************************************)
(* Registrations whose subjects are a sequence of reply and forward        *)
(* prefixes followed by a base subject.                                    *)
(***************************************************************************)
MaxPrefixes == 2        \* prefixes in front of the base subject

SubjectPrefixes == {"Re:", "FW:"}

BaseSubject == <<"c">>

RECURSIVE PrefixSeqs(_)
PrefixSeqs(n) ==
    IF n = 0 THEN {<<>>}
    ELSE PrefixSeqs(n - 1) \cup {<<p>> \o q : p \in SubjectPrefixes, q \in PrefixSeqs(n - 1)}

SubjectInputs ==
    { EmailData("a", AddrOk, p \o BaseSubject, 0, 7, PyStr("<m1>")) : p \in PrefixSeqs(MaxPrefixes) }

SubjectNext ==
    \/ \E e \in SubjectInputs : Register(e)
    \/ \E i \in DOMAIN db : \E m \in MessagesFor(db[i]) : Deliver(m)
    \/ \E i, s \in BOOLEAN : Connect(i, s)
    \/ \E h \in Handles, f \in {"none", "imap"} : CheckForResponses(h, f)

SubjectSpec == Init /\ [][SubjectNext]_vars

(***************************************************************************)
(* C40.  sanitize_subject strips every leading prefix, so it is            *)
(* idempotent: for the subject s of every stored record, a sequence of     *)
(* prefixes followed by the base subject,                                  *)
(* sanitize_subject(sanitize_subject(s)) = sanitize_subject(s) = the base  *)
(* subject.                                                                *)
(***************************************************************************)
C40_SanitizeIdempotent ==
    \A i \in DOMAIN db :
        LET s == db[i].subject
        IN  /\ sanitize_subject(sanitize_subject(s)) = sanitize_subject(s)
            /\ sanitize_subject(s) = BaseSubject

====
